---- MODULE Spec2Model ----
(***************************************************************************)
(* CronCoder (src/croncoder.py): the PID lock file (class LockFile), the   *)
(* cooldown lookup (check_recent_attempt), the repository scan             *)
(* (scan_repositories, process_issue) and the main loop (main).            *)
(*                                                                         *)
(* Each CronCoder instance is a process p \in Procs whose process id is p. *)
(* The lock file, the clock and the GitHub issues are shared; everything   *)
(* else is local to one process.  A process is followed statement by       *)
(* statement through acquire() and release(), so that the steps of two     *)
(* instances can interleave.                                               *)
(***************************************************************************)
EXTENDS Integers, Sequences, FiniteSets, TLC

(* ------------------------------ bounds --------------------------------- *)
NumProcs == 2      \* CronCoder instances started during one behaviour
NumRepos == 2      \* git repositories under repos_directory
MaxIssues == 1     \* issue numbers per repository
MaxDispatches == 1 \* calls of process_issue during one behaviour
MaxTime == 1900    \* the clock stops the model here
MaxResetMinutes == 2 \* a quota reset lies at most this many minutes ahead

Procs == 1..NumProcs
Repos == 1..NumRepos
IssueNums == 1..MaxIssues
Keys == Repos \X IssueNums
\* the pid left in the lock file by an earlier instance that is gone
StalePid == NumProcs + 1

(* ------------------------- text of the lock file ----------------------- *)
DigitChars == <<"0", "1", "2", "3", "4", "5", "6", "7", "8", "9">>
Whitespace == {" ", "\n"}

IsDigit(c) == \E d \in 1..10 : DigitChars[d] = c
DigitValue(c) == (CHOOSE d \in 1..10 : DigitChars[d] = c) - 1

\* str(os.getpid())
RECURSIVE Str(_)
Str(n) == IF n < 10 THEN <<DigitChars[n + 1]>>
          ELSE Str(n \div 10) \o <<DigitChars[(n % 10) + 1]>>

\* str.strip()
RECURSIVE StripLeft(_)
StripLeft(s) == IF s # <<>> /\ Head(s) \in Whitespace THEN StripLeft(Tail(s)) ELSE s
RECURSIVE StripRight(_)
StripRight(s) == IF s # <<>> /\ s[Len(s)] \in Whitespace
                 THEN StripRight(SubSeq(s, 1, Len(s) - 1)) ELSE s
Strip(s) == StripRight(StripLeft(s))

\* int(text): ok = FALSE stands for ValueError
RECURSIVE DigitsValue(_)
DigitsValue(s) == IF s = <<>> THEN 0
                  ELSE 10 * DigitsValue(SubSeq(s, 1, Len(s) - 1)) + DigitValue(s[Len(s)])
ParseInt(s) == IF s # <<>> /\ \A i \in 1..Len(s) : IsDigit(s[i])
               THEN [ok |-> TRUE, val |-> DigitsValue(s)]
               ELSE [ok |-> FALSE, val |-> 0]

NoFile == [exists |-> FALSE, text |-> <<>>]
FileWith(t) == [exists |-> TRUE, text |-> t]

\* what an instance may find at start-up: no lock file, the record of an
\* instance that is gone, or a torn / foreign record
InitialLockFiles ==
    {NoFile, FileWith(Str(StalePid)), FileWith(Str(StalePid) \o <<"\n">>),
     FileWith(<<>>), FileWith(<<"x">>)}

VARIABLES
    lockFile,     \* croncoder.lock: [exists, text]
    pc,           \* position of each instance
    locked,       \* LockFile.locked
    old_pid,      \* local of acquire()
    relCtx,       \* caller of the release() in progress
    sigIn,        \* what the signal handler interrupted
    pending,      \* what propagates through main's finally: none / exc / exit
    exitCode,     \* <<>> while running, <<code>> once the process has ended
    acqStale,     \* history: acquire() was called on the record of an instance that is gone
    relOther      \* history: release() was called on a record naming another process

lockVars == <<lockFile, pc, locked, old_pid, relCtx, sigIn, pending, exitCode, acqStale, relOther>>

VARIABLES
    now,          \* the clock, in seconds
    open,         \* GitHub: the open issues, as <<repository, number>>
    skipLabel,    \* GitHub: the issues labelled croncoder-skip
    comments,     \* GitHub: the comments of each issue, a set of [body, createdAt]
    dispatches    \* calls of process_issue so far

VARIABLES
    snapshot,     \* get_open_issues: <<the answer of `gh api rate_limit`>> to the call followed
    wait_time,    \* get_open_issues: wait_time, <<>> before check_github_rate_limit returns
    qpc           \* get_open_issues: position of that call

quotaVars == <<snapshot, wait_time, qpc>>

ghVars == <<now, open, skipLabel, comments, dispatches, quotaVars>>

VARIABLES
    failed_issues,   \* main: failed_issues
    issues_found,    \* scan_repositories: issues_found
    processable,     \* scan_repositories: processable_issues_found
    rate_limit_hit,  \* scan_repositories: rate_limit_hit
    entry,           \* scan_repositories: position in os.listdir(repos_dir)
    todo,            \* scan_repositories: issues not yet visited
    cur,             \* scan_repositories: number of the issue being processed
    posting,         \* process_issue: `gh issue comment` works during this call
    success,         \* scan_repositories: what process_issue returned, or "raise"
    outcome,         \* main: the branch taken after the last pass
    seen,            \* history: issues listed in this pass
    dispatched,      \* history: issues handed to process_issue in this pass
    prevSeen,        \* history: `seen` of the pass before
    prevAllFailed    \* history: that pass listed issues, all of them failed

scanVars == <<failed_issues, issues_found, processable, rate_limit_hit, entry, todo,
              cur, posting, success, outcome, seen, dispatched, prevSeen,
              prevAllFailed>>

orchVars == <<ghVars, scanVars>>

vars == <<lockVars, orchVars>>

AcqPcs == {"acq_exists", "acq_read", "acq_probe", "acq_rm_stale", "acq_rm_invalid",
           "acq_rm_torn", "acq_write"}
RelPcs == {"rel_check", "rel_remove"}
ScanPcs == {"scan_dir", "list", "scan_issue", "pi_start", "pi_claude", "pi_return",
            "item_sleep"}
LoopPcs == {"loop_top", "sleeping"} \cup ScanPcs
GonePcs == {"idle", "exited", "killed"}

\* the process with this id exists (it has been started and has not ended)
ProcessExists(pid) == pid \in Procs /\ pc[pid] \notin GonePcs

(* ------------------------------ LockFile ------------------------------- *)
\* os.path.exists(self.lock_path)
OsPathExists(f) == f.exists

\* with open(...) as f: int(f.read().strip());  err: "io" (no such file),
\* "value" (ValueError) or "none"
ReadPid(f) ==
    IF ~f.exists THEN [err |-> "io", val |-> 0]
    ELSE LET n == ParseInt(Strip(f.text))
         IN  IF n.ok THEN [err |-> "none", val |-> n.val]
             ELSE [err |-> "value", val |-> 0]

\* os.kill(pid, 0) returns without OSError
KillSucceeds_dead(pid) == FALSE
KillSucceeds_always(pid) == TRUE
KillSucceeds(pid) == ProcessExists(pid)

\* pid == os.getpid()
IsOwnPid_any(pid, p) == TRUE
IsOwnPid_none(pid, p) == FALSE
IsOwnPid(pid, p) == pid = p

\* the record parses and names this process id
Names(f, pid) == ReadPid(f) = [err |-> "none", val |-> pid]
\* the record parses and its owner is gone
StaleRecord(f) == LET r == ReadPid(f) IN r.err = "none" /\ ~ProcessExists(r.val)
\* the record parses and names another process than p
NamesOther(f, p) == LET r == ReadPid(f) IN r.err = "none" /\ r.val # p

CallRelease(p, ctx) ==
    /\ pc' = [pc EXCEPT ![p] = "rel_check"]
    /\ relCtx' = [relCtx EXCEPT ![p] = ctx]
    /\ relOther' = [relOther EXCEPT ![p] = NamesOther(lockFile, p)]

\* the memory of a process that has ended is gone
Forget(p) ==
    /\ locked' = [locked EXCEPT ![p] = FALSE]
    /\ old_pid' = [old_pid EXCEPT ![p] = 0]
    /\ relCtx' = [relCtx EXCEPT ![p] = "none"]
    /\ sigIn' = [sigIn EXCEPT ![p] = "try"]
    /\ pending' = [pending EXCEPT ![p] = "none"]
    /\ acqStale' = [acqStale EXCEPT ![p] = FALSE]
    /\ relOther' = [relOther EXCEPT ![p] = FALSE]

\* the locals of scan_repositories and main, before the first pass
ForgetScan(p) ==
    /\ failed_issues' = [failed_issues EXCEPT ![p] = {}]
    /\ issues_found' = [issues_found EXCEPT ![p] = FALSE]
    /\ processable' = [processable EXCEPT ![p] = FALSE]
    /\ rate_limit_hit' = [rate_limit_hit EXCEPT ![p] = FALSE]
    /\ entry' = [entry EXCEPT ![p] = 0]
    /\ todo' = [todo EXCEPT ![p] = <<>>]
    /\ cur' = [cur EXCEPT ![p] = 0]
    /\ posting' = [posting EXCEPT ![p] = FALSE]
    /\ success' = [success EXCEPT ![p] = "none"]
    /\ outcome' = [outcome EXCEPT ![p] = "none"]
    /\ seen' = [seen EXCEPT ![p] = {}]
    /\ dispatched' = [dispatched EXCEPT ![p] = {}]
    /\ prevSeen' = [prevSeen EXCEPT ![p] = {}]
    /\ prevAllFailed' = [prevAllFailed EXCEPT ![p] = FALSE]

\* the process ends with this exit code, having written the lock file
Exit(p, code) ==
    /\ pc' = [pc EXCEPT ![p] = "exiting"]
    /\ exitCode' = [exitCode EXCEPT ![p] = <<code>>]
    /\ Forget(p)

\* the process ends with this exit code, never having written the lock file
Quit_failing(p, code) ==
    /\ pc' = [pc EXCEPT ![p] = "quitting"]
    /\ exitCode' = [exitCode EXCEPT ![p] = <<code + 1>>]
    /\ Forget(p)
Quit(p, code) ==
    /\ pc' = [pc EXCEPT ![p] = "quitting"]
    /\ exitCode' = [exitCode EXCEPT ![p] = <<code>>]
    /\ Forget(p)

(* ------------------------------- main ---------------------------------- *)
\* main() up to lock.acquire(): the Claude CLI, the config file and the
\* repository directory are checked first; any of them missing ends the
\* process with sys.exit(1)
SetupExit_noDirCheck(claudeOk, configOk, dirOk) ==
    IF ~claudeOk THEN <<1>> ELSE IF ~configOk THEN <<1>> ELSE <<>>
\* <<the code of the sys.exit reached before lock.acquire()>>, or <<>> when
\* main goes on to the lock
SetupExit(claudeOk, configOk, dirOk) ==
    IF ~claudeOk THEN <<1>>
    ELSE IF ~configOk THEN <<1>>
    ELSE IF ~dirOk THEN <<1>>
    ELSE <<>>

StartMain(p) ==
    /\ pc[p] = "idle"
    /\ \E claudeOk, configOk, dirOk \in BOOLEAN :
         IF SetupExit(claudeOk, configOk, dirOk) = <<>>
         THEN /\ pc' = [pc EXCEPT ![p] = "acq_exists"]
              /\ acqStale' = [acqStale EXCEPT ![p] = StaleRecord(lockFile)]
              /\ UNCHANGED <<locked, old_pid, relCtx, sigIn, pending, exitCode, relOther>>
         ELSE Quit(p, SetupExit(claudeOk, configOk, dirOk)[1])
    /\ UNCHANGED <<lockFile, orchVars>>

(* --------------------------- LockFile.acquire -------------------------- *)
\* if os.path.exists(self.lock_path):
AcqExists(p) ==
    /\ pc[p] = "acq_exists"
    /\ pc' = [pc EXCEPT ![p] = IF OsPathExists(lockFile) THEN "acq_read" ELSE "acq_write"]
    /\ UNCHANGED <<lockFile, locked, old_pid, relCtx, sigIn, pending, exitCode, acqStale, relOther, orchVars>>

\* old_pid = int(f.read().strip()); a missing file (IOError) or a text that
\* is no integer (ValueError) leads to the outer except clause, which is then
\* entered at "acq_rm_invalid" or at "acq_rm_torn"
AcqRead(p) ==
    /\ pc[p] = "acq_read"
    /\ IF ReadPid(lockFile).err = "none"
       THEN /\ old_pid' = [old_pid EXCEPT ![p] = ReadPid(lockFile).val]
            /\ pc' = [pc EXCEPT ![p] = "acq_probe"]
       ELSE /\ pc' = [pc EXCEPT ![p] = IF ReadPid(lockFile).err = "value"
                                       THEN "acq_rm_torn" ELSE "acq_rm_invalid"]
            /\ UNCHANGED old_pid
    /\ UNCHANGED <<lockFile, locked, relCtx, sigIn, pending, exitCode, acqStale, relOther, orchVars>>

\* os.kill(old_pid, 0): return False when it succeeds, else the lock is stale
AcqProbe(p) ==
    /\ pc[p] = "acq_probe"
    /\ IF KillSucceeds(old_pid[p])
       THEN /\ pc' = [pc EXCEPT ![p] = "denied"]
            /\ acqStale' = [acqStale EXCEPT ![p] = FALSE]
       ELSE /\ pc' = [pc EXCEPT ![p] = "acq_rm_stale"]
            /\ UNCHANGED acqStale
    /\ old_pid' = [old_pid EXCEPT ![p] = 0]
    /\ UNCHANGED <<lockFile, locked, relCtx, sigIn, pending, exitCode, relOther, orchVars>>

\* except OSError: os.remove(self.lock_path); when the file is gone the
\* FileNotFoundError is an IOError and is caught by the outer except clause
AcqRemoveStale(p) ==
    /\ pc[p] = "acq_rm_stale"
    /\ IF OsPathExists(lockFile)
       THEN /\ lockFile' = NoFile
            /\ pc' = [pc EXCEPT ![p] = "acq_write"]
       ELSE /\ pc' = [pc EXCEPT ![p] = "acq_rm_invalid"]
            /\ UNCHANGED lockFile
    /\ UNCHANGED <<locked, old_pid, relCtx, sigIn, pending, exitCode, acqStale, relOther, orchVars>>

\* except (ValueError, IOError): os.remove(self.lock_path); when the file is
\* gone the FileNotFoundError leaves acquire() and main(): exit code 1
AcqRemoveInvalid(p) ==
    /\ pc[p] \in {"acq_rm_invalid", "acq_rm_torn"}
    /\ IF OsPathExists(lockFile)
       THEN /\ lockFile' = NoFile
            /\ pc' = [pc EXCEPT ![p] = "acq_write"]
            /\ UNCHANGED <<locked, old_pid, relCtx, sigIn, pending, exitCode, acqStale, relOther>>
       ELSE /\ Quit(p, 1)
            /\ UNCHANGED lockFile
    /\ UNCHANGED orchVars

\* f.write(str(os.getpid())); self.locked = True; atexit and the signal
\* handlers are registered; return True; main enters its try block
AcqWrite(p) ==
    /\ pc[p] = "acq_write"
    /\ lockFile' = FileWith(Str(p))
    /\ locked' = [locked EXCEPT ![p] = TRUE]
    /\ pc' = [pc EXCEPT ![p] = "loop_top"]
    /\ UNCHANGED <<old_pid, relCtx, sigIn, pending, exitCode, acqStale, relOther, orchVars>>

\* if not lock.acquire(): sys.exit(0); nothing is registered with atexit
ExitDenied(p) ==
    /\ pc[p] \in {"denied", "denied_released"}
    /\ Quit(p, 0)
    /\ UNCHANGED <<lockFile, orchVars>>

\* a caller of the class that calls release() after a denied acquire()
DeniedRelease(p) ==
    /\ pc[p] = "denied"
    /\ CallRelease(p, "api")
    /\ UNCHANGED <<lockFile, locked, old_pid, sigIn, pending, exitCode, acqStale, orchVars>>

(* --------------------------- LockFile.release -------------------------- *)
\* the exit code of a process that ends while `pending` propagates
ExitCodeOf(pend) == IF pend = "exc" THEN 1 ELSE 0

\* release() returns to its caller, lk being self.locked at that moment:
\*   _signal_handler: sys.exit(0) raises SystemExit where the signal arrived;
\*       inside main's try it runs the finally block, inside the finally block
\*       it leaves main, inside the atexit hook it is discarded;
\*   main's finally: the exception (if any) goes on and the atexit hook runs;
\*   atexit: the process ends.
\* (an action that uses it sets lockFile' first)
ReleaseReturn(p, lk) ==
    CASE relCtx[p] = "api" ->
           /\ pc' = [pc EXCEPT ![p] = "denied_released"]
           /\ relCtx' = [relCtx EXCEPT ![p] = "none"]
           /\ relOther' = [relOther EXCEPT ![p] = FALSE]
           /\ locked' = [locked EXCEPT ![p] = lk]
           /\ UNCHANGED <<old_pid, sigIn, pending, exitCode, acqStale>>
      [] relCtx[p] = "handler" /\ sigIn[p] = "try" ->
           /\ pc' = [pc EXCEPT ![p] = "rel_check"]
           /\ relCtx' = [relCtx EXCEPT ![p] = "finally"]
           /\ relOther' = [relOther EXCEPT ![p] = NamesOther(lockFile', p)]
           /\ pending' = [pending EXCEPT ![p] = "exit"]
           /\ locked' = [locked EXCEPT ![p] = lk]
           /\ UNCHANGED <<old_pid, sigIn, exitCode, acqStale>>
      [] relCtx[p] = "handler" /\ sigIn[p] = "finally" ->
           /\ pc' = [pc EXCEPT ![p] = "rel_check"]
           /\ relCtx' = [relCtx EXCEPT ![p] = "atexit"]
           /\ relOther' = [relOther EXCEPT ![p] = NamesOther(lockFile', p)]
           /\ pending' = [pending EXCEPT ![p] = "exit"]
           /\ locked' = [locked EXCEPT ![p] = lk]
           /\ UNCHANGED <<old_pid, sigIn, exitCode, acqStale>>
      [] relCtx[p] = "handler" /\ sigIn[p] = "atexit" ->
           Exit(p, ExitCodeOf(pending[p]))
      [] relCtx[p] = "finally" ->
           /\ pc' = [pc EXCEPT ![p] = "rel_check"]
           /\ relCtx' = [relCtx EXCEPT ![p] = "atexit"]
           /\ relOther' = [relOther EXCEPT ![p] = NamesOther(lockFile', p)]
           /\ locked' = [locked EXCEPT ![p] = lk]
           /\ UNCHANGED <<old_pid, sigIn, pending, exitCode, acqStale>>
      [] relCtx[p] = "atexit" ->
           Exit(p, ExitCodeOf(pending[p]))

\* if self.locked and os.path.exists(self.lock_path):
\*     pid = int(f.read().strip()); if pid == os.getpid(): ...
\* The test and the read are one step: neither writes, and a file that
\* vanishes between them makes the read fail, which release() passes over
\* (except ValueError, IOError, OSError: pass) just as it passes over a
\* file that is missing at the test
ShouldRemove_exists(lk, f, p) == OsPathExists(f)
ShouldRemove(lk, f, p) ==
    /\ lk /\ OsPathExists(f)
    /\ ReadPid(f).err = "none"
    /\ IsOwnPid(ReadPid(f).val, p)

RelCheck(p) ==
    /\ pc[p] = "rel_check"
    /\ UNCHANGED <<lockFile, orchVars>>
    /\ IF ShouldRemove(locked[p], lockFile, p)
       THEN /\ pc' = [pc EXCEPT ![p] = "rel_remove"]
            /\ UNCHANGED <<locked, old_pid, relCtx, sigIn, pending, exitCode, acqStale, relOther>>
       ELSE ReleaseReturn(p, locked[p])

\* os.remove(self.lock_path); self.locked = False; an OSError of the remove
\* is passed over and leaves self.locked set
RelRemove(p) ==
    /\ pc[p] = "rel_remove"
    /\ UNCHANGED orchVars
    /\ IF OsPathExists(lockFile)
       THEN /\ lockFile' = NoFile
            /\ ReleaseReturn(p, FALSE)
       ELSE /\ UNCHANGED lockFile
            /\ ReleaseReturn(p, locked[p])

\* what a signal arriving now interrupts
Phase(p) == IF pc[p] \in RelPcs THEN relCtx[p] ELSE "try"

\* SIGTERM or SIGINT once acquire() has installed _signal_handler:
\* self.release(); sys.exit(0)
Signal(p) ==
    /\ pc[p] \in LoopPcs \cup RelPcs
    /\ relCtx[p] # "api"
    /\ sigIn' = [sigIn EXCEPT ![p] = IF Phase(p) = "handler" THEN @ ELSE Phase(p)]
    /\ CallRelease(p, "handler")
    /\ acqStale' = [acqStale EXCEPT ![p] = FALSE]
    /\ ForgetScan(p)
    /\ UNCHANGED <<lockFile, locked, old_pid, pending, exitCode, ghVars>>

\* the parent has collected the exit code.  The process id of an instance
\* that wrote the lock file is not used again; that of an instance that never
\* wrote it is recorded nowhere and serves the next instance
Reap(p) ==
    /\ pc[p] \in {"exiting", "quitting"}
    /\ pc' = [pc EXCEPT ![p] = IF pc[p] = "exiting" THEN "exited" ELSE "idle"]
    /\ exitCode' = [exitCode EXCEPT ![p] = <<>>]
    /\ UNCHANGED <<lockFile, locked, old_pid, relCtx, sigIn, pending,
                   acqStale, relOther, orchVars>>

\* SIGKILL, or a signal before the handlers are installed: the process is
\* gone at once and nothing is cleaned up
Kill(p) ==
    /\ pc[p] \notin GonePcs \cup {"exiting", "quitting"}
    /\ pc' = [pc EXCEPT ![p] = "killed"]
    /\ Forget(p)
    /\ ForgetScan(p)
    /\ UNCHANGED <<lockFile, exitCode, ghVars>>

(* ------------------- main loop, seen from the lock --------------------- *)
\* the passes of the loop end in one of the three sleeping branches
AbsPassSleep(p) ==
    /\ pc[p] = "loop_top"
    /\ pc' = [pc EXCEPT ![p] = "sleeping"]
    /\ acqStale' = [acqStale EXCEPT ![p] = FALSE]
    /\ UNCHANGED <<lockFile, locked, old_pid, relCtx, sigIn, pending, exitCode, relOther, orchVars>>

\* an exception leaves the loop: except Exception: raise, then finally
AbsRaise(p) ==
    /\ pc[p] = "loop_top"
    /\ pending' = [pending EXCEPT ![p] = "exc"]
    /\ CallRelease(p, "finally")
    /\ acqStale' = [acqStale EXCEPT ![p] = FALSE]
    /\ UNCHANGED <<lockFile, locked, old_pid, sigIn, exitCode, orchVars>>

\* time.sleep(sleep_time * 60) returns; break; finally: lock.release()
AbsSleepDone(p) ==
    /\ pc[p] = "sleeping"
    /\ CallRelease(p, "finally")
    /\ UNCHANGED <<lockFile, locked, old_pid, sigIn, pending, exitCode, acqStale, orchVars>>

(* ------------------------- program constants --------------------------- *)
CooldownHours == 1       \* check_recent_attempt(..., cooldown_hours=1)
SecondsPerHour == 3600
ItemDelay == 30          \* time.sleep(30) between issues
SleepTime == 30          \* config.get('sleep_time', 30), minutes
SecondsPerMinute == 60
ClaudeTimeout == 1800    \* run_command(claude_cmd, ..., timeout=1800)
LowQuota == 50           \* if remaining < 50
ResetBuffer == 60        \* wait_time = time_until_reset + 60
MinPacing == 10          \* if wait_time > 10
RateLimitBackoff == 3600 \* return 3600 when the rate-limit query is itself limited

Min(a, b) == IF a < b THEN a ELSE b
Max(a, b) == IF a > b THEN a ELSE b

(* ------------------------ check_github_rate_limit ---------------------- *)
\* a wait time in seconds is a quotient of two integers: wait_time =
\* time_until_reset / remaining is a true division
Rat(n, d) == [n |-> n, d |-> d]
\* wait_time > k
Greater(w, k) == w.n > k * w.d
\* time.sleep(wait_time) returns at the first tick of the clock, which counts
\* whole seconds, that is not before the end of the wait
SleepSeconds(w) == (w.n + w.d - 1) \div w.d

\* q is the answer of `gh api rate_limit`: its return code, whether stderr
\* mentions "rate limit", whether stdout parses to the expected structure
\* (anything else raises and is caught by except Exception), and the two
\* resources
CheckGithubRateLimit(q, t) ==
    IF q.rc # 0 THEN (IF q.stderrRateLimit THEN Rat(RateLimitBackoff, 1) ELSE Rat(0, 1))
    ELSE IF ~q.jsonOk THEN Rat(0, 1)
    ELSE LET core == q.core
             graphql == IF q.hasGraphql THEN q.graphql ELSE core
             remaining == Min(core.remaining, graphql.remaining)
             reset_timestamp == Min(core.reset, graphql.reset)
             time_until_reset == Max(0, reset_timestamp - t)
         IN  IF remaining < LowQuota
             THEN IF remaining = 0 THEN Rat(time_until_reset + ResetBuffer, 1)
                  ELSE IF Greater(Rat(time_until_reset, remaining), MinPacing)
                       THEN Rat(time_until_reset, remaining)
                       ELSE Rat(0, 1)
             ELSE Rat(0, 1)

\* the answers of `gh api rate_limit` met during a scan at time t: the query
\* fails, or it reports a quota that is not low
ScanQuotaInputs(t) ==
    LET ample == [remaining |-> LowQuota, reset |-> t + ResetBuffer]
    IN  {[rc |-> 1, stderrRateLimit |-> FALSE, jsonOk |-> FALSE, hasGraphql |-> TRUE,
          core |-> ample, graphql |-> ample],
         [rc |-> 0, stderrRateLimit |-> FALSE, jsonOk |-> TRUE, hasGraphql |-> TRUE,
          core |-> ample, graphql |-> ample]}

(* ----------------- get_open_issues, up to the listing ------------------ *)
\* the values of `remaining` and the reset timestamps met at time t
QuotaRemaining == {0, 1, 7, LowQuota - 1, LowQuota}
QuotaResets(t) == {t + m * SecondsPerMinute : m \in (0 - 1)..MaxResetMinutes}
QuotaResources(t) == [remaining : QuotaRemaining, reset : QuotaResets(t)]

\* the answers of `gh api rate_limit` at time t: the command fails, with or
\* without "rate limit" in stderr; its output does not parse; it reports the
\* core resource alone, or core and graphql
QuotaInputs(t) ==
    LET any == CHOOSE r \in QuotaResources(t) : TRUE
    IN  {[rc |-> 1, stderrRateLimit |-> b, jsonOk |-> FALSE, hasGraphql |-> FALSE,
          core |-> any, graphql |-> any] : b \in BOOLEAN}
        \cup {[rc |-> 0, stderrRateLimit |-> FALSE, jsonOk |-> FALSE, hasGraphql |-> FALSE,
                core |-> any, graphql |-> any]}
        \cup {[rc |-> 0, stderrRateLimit |-> FALSE, jsonOk |-> TRUE, hasGraphql |-> FALSE,
                core |-> c, graphql |-> c] : c \in QuotaResources(t)}
        \cup {[rc |-> 0, stderrRateLimit |-> FALSE, jsonOk |-> TRUE, hasGraphql |-> TRUE,
                core |-> c, graphql |-> g] : c \in QuotaResources(t), g \in QuotaResources(t)}

\* wait_time = check_github_rate_limit()
QuotaCheck ==
    /\ qpc = "check"
    /\ wait_time' = <<CheckGithubRateLimit(snapshot[1], now)>>
    /\ qpc' = "wait"
    /\ UNCHANGED <<lockVars, scanVars, now, open, skipLabel, comments, dispatches, snapshot>>

\* between the call of check_github_rate_limit and the call of run_command
\* get_open_issues has no return statement: it goes on whatever the wait was
QuotaProceeds_unlessWaiting(w) == ~Greater(w, 0)
QuotaProceeds(w) == TRUE

\* if wait_time > 0: time.sleep(wait_time)
QuotaWait ==
    /\ qpc = "wait"
    /\ now' = IF Greater(wait_time[1], 0) THEN now + SleepSeconds(wait_time[1]) ELSE now
    /\ qpc' = IF QuotaProceeds(wait_time[1]) THEN "list" ELSE "returned"
    /\ UNCHANGED <<lockVars, scanVars, open, skipLabel, comments, dispatches, snapshot, wait_time>>

\* run_command("gh issue list --state open --json number,title,labels")
QuotaList ==
    /\ qpc = "list"
    /\ qpc' = "listed"
    /\ UNCHANGED <<lockVars, scanVars, now, open, skipLabel, comments, dispatches, snapshot,
                   wait_time>>

(* ----------------------------- GitHub ---------------------------------- *)
\* the open issues of repository r, newest first, as `gh issue list` prints them
RECURSIVE OpenIssuesFrom(_, _, _)
OpenIssuesFrom(r, n, op) ==
    IF n = 0 THEN <<>>
    ELSE (IF <<r, n>> \in op THEN <<n>> ELSE <<>>) \o OpenIssuesFrom(r, n - 1, op)

\* get_open_issues: the loop that drops the issues labelled croncoder-skip
RECURSIVE FilterSkip(_, _, _)
FilterSkip_none(r, list, skip) == list
FilterSkip(r, list, skip) ==
    IF list = <<>> THEN <<>>
    ELSE (IF <<r, Head(list)>> \notin skip THEN <<Head(list)>> ELSE <<>>)
         \o FilterSkip(r, Tail(list), skip)

\* `gh issue list` succeeds, fails with or without "rate limit" in stderr,
\* prints no JSON, or prints JSON that is no list of issues with labels
ListOutcomes == {"ok", "rate_limit", "error", "badjson", "malformed"}

\* get_open_issues after the rate-limit wait: None on a rate-limit error of
\* `gh issue list`, [] on any other failure, else the filtered list; on
\* "malformed" the filter loop raises and nothing is returned
GetOpenIssues(res, r, op, skip) ==
    IF res = "rate_limit" THEN [none |-> TRUE, list |-> <<>>]
    ELSE IF res # "ok" THEN [none |-> FALSE, list |-> <<>>]
    ELSE [none |-> FALSE, list |-> FilterSkip(r, OpenIssuesFrom(r, MaxIssues, op), skip)]

FetchOutcomes == {"ok", "fail", "malformed"}

\* The program reads the comments of an issue only in check_recent_attempt,
\* which asks whether some comment carries croncoder_pattern and is younger
\* than the cooldown; it returns on the first such comment of its walk, so
\* neither the order nor the number of equal comments shows.  The comments
\* are therefore kept as a set, and a body as what it is to the program:
\*   "working"  the "CronCoder is now working on this issue" comment,
\*   "success"  the "Successfully fixed and pushed" comment,
\*   "note"     any other text (progress and error messages, the closing note).

\* get_issue_comments: [] when `gh issue view` fails or prints no JSON
GetIssueComments(fetch, stored) == IF fetch = "ok" THEN stored ELSE {}

\* croncoder_pattern in comment.get('body', '')
IsMarker(body) == body = "working"

\* time_diff.total_seconds() < cooldown_hours * 3600
WithinCooldown(age) == age < CooldownHours * SecondsPerHour

\* check_recent_attempt on the fetched comments: True at the first comment
\* with the pattern, a timestamp and an age below the cooldown, else False
CheckRecentAttempt(cs, t) ==
    \E c \in cs : /\ IsMarker(c.body)
                  /\ c.createdAt # <<>>
                  /\ WithinCooldown(t - c.createdAt[1])

\* post_issue_comment: the comment is on the issue when `gh issue comment` succeeds
PostIssueComment(cs, ok, body, t) ==
    IF ok THEN cs \cup {[body |-> body, createdAt |-> <<t>>]} ELSE cs

\* what the first issue carries when the program starts: an attempt marker
\* exactly one cooldown old and a recent comment of somebody else, or an
\* attempt marker a second younger than the cooldown
InitialComments ==
    {{[body |-> "working", createdAt |-> <<0 - CooldownHours * SecondsPerHour>>],
      [body |-> "note", createdAt |-> <<1 - CooldownHours * SecondsPerHour>>]},
     {[body |-> "working", createdAt |-> <<1 - CooldownHours * SecondsPerHour>>]}}

(* --------------------------- scan_repositories ------------------------- *)
IsGitRepository(e) == e \in Repos

Key(p) == <<entry[p], cur[p]>>

\* main's chain of tests on the flags scan_repositories returns
MainBranch_noExhausted(rate, found, proc) ==
    IF rate THEN "rate_limit"
    ELSE IF ~found THEN "idle"
    ELSE "progressed"
MainBranch_itemsFirst(rate, found, proc) ==
    IF found /\ proc THEN "progressed"
    ELSE IF rate THEN "rate_limit"
    ELSE IF ~found THEN "idle"
    ELSE "exhausted"
MainBranch(rate, found, proc) ==
    IF rate THEN "rate_limit"
    ELSE IF ~found THEN "idle"
    ELSE IF found /\ ~proc THEN "exhausted"
    ELSE "progressed"

\* an exception reaches main: except Exception: raise, then finally
RaiseOut(p) ==
    /\ pending' = [pending EXCEPT ![p] = "exc"]
    /\ CallRelease(p, "finally")
    /\ acqStale' = [acqStale EXCEPT ![p] = FALSE]
    /\ ForgetScan(p)
    /\ UNCHANGED <<lockFile, locked, old_pid, sigIn, exitCode, ghVars>>

\* while True: scan_repositories(repos_dir, failed_issues) is called and
\* initialises its flags; os.listdir may raise
ScanBegin(p) ==
    /\ pc[p] = "loop_top"
    /\ \E listdirOk \in BOOLEAN :
         IF listdirOk
         THEN /\ pc' = [pc EXCEPT ![p] = "scan_dir"]
              /\ issues_found' = [issues_found EXCEPT ![p] = FALSE]
              /\ processable' = [processable EXCEPT ![p] = FALSE]
              /\ rate_limit_hit' = [rate_limit_hit EXCEPT ![p] = FALSE]
              /\ entry' = [entry EXCEPT ![p] = 0]
              /\ todo' = [todo EXCEPT ![p] = <<>>]
              /\ cur' = [cur EXCEPT ![p] = 0]
              /\ outcome' = [outcome EXCEPT ![p] = "none"]
              /\ prevSeen' = [prevSeen EXCEPT ![p] = seen[p]]
              /\ prevAllFailed' = [prevAllFailed EXCEPT ![p] =
                                     seen[p] # {} /\ seen[p] \subseteq failed_issues[p]]
              /\ seen' = [seen EXCEPT ![p] = {}]
              /\ dispatched' = [dispatched EXCEPT ![p] = {}]
              /\ acqStale' = [acqStale EXCEPT ![p] = FALSE]
              /\ UNCHANGED <<lockFile, locked, old_pid, relCtx, sigIn, pending, exitCode, relOther, ghVars, failed_issues, posting, success>>
         ELSE RaiseOut(p)

\* for item in os.listdir(repos_dir): an entry that is no git repository
SkipEntry(p) ==
    /\ pc[p] = "scan_dir"
    /\ entry[p] <= NumRepos /\ ~IsGitRepository(entry[p])
    /\ entry' = [entry EXCEPT ![p] = @ + 1]
    /\ UNCHANGED <<lockVars, ghVars, failed_issues, issues_found, processable,
                   rate_limit_hit, todo, cur, posting, success, outcome, seen, dispatched,
                   prevSeen, prevAllFailed>>

\* get_open_issues, first half: wait_time = check_github_rate_limit();
\* if wait_time > 0: time.sleep(wait_time)
RepoQuota(p) ==
    /\ pc[p] = "scan_dir"
    /\ entry[p] <= NumRepos /\ IsGitRepository(entry[p])
    /\ \E q \in ScanQuotaInputs(now) :
         /\ now + SleepSeconds(CheckGithubRateLimit(q, now)) <= MaxTime
         /\ now' = now + SleepSeconds(CheckGithubRateLimit(q, now))
    /\ pc' = [pc EXCEPT ![p] = "list"]
    /\ UNCHANGED <<lockFile, locked, old_pid, relCtx, sigIn, pending, exitCode,
                   acqStale, relOther, open, skipLabel, quotaVars, comments, dispatches, scanVars>>

\* what scan_repositories does with the value get_open_issues returned
ListReturned(p, issues) ==
    /\ IF issues.none
       THEN /\ rate_limit_hit' = [rate_limit_hit EXCEPT ![p] = TRUE]
            /\ entry' = [entry EXCEPT ![p] = @ + 1]
            /\ pc' = [pc EXCEPT ![p] = "scan_dir"]
            /\ UNCHANGED <<issues_found, todo, seen>>
       ELSE IF issues.list = <<>>
       THEN /\ entry' = [entry EXCEPT ![p] = @ + 1]
            /\ pc' = [pc EXCEPT ![p] = "scan_dir"]
            /\ UNCHANGED <<rate_limit_hit, issues_found, todo, seen>>
       ELSE /\ issues_found' = [issues_found EXCEPT ![p] = TRUE]
            /\ todo' = [todo EXCEPT ![p] = issues.list]
            /\ seen' = [seen EXCEPT ![p] =
                          @ \cup {<<entry[p], issues.list[i]>> : i \in 1..Len(issues.list)}]
            /\ pc' = [pc EXCEPT ![p] = "scan_issue"]
            /\ UNCHANGED <<rate_limit_hit, entry>>
    /\ UNCHANGED <<lockFile, locked, old_pid, relCtx, sigIn, pending, exitCode,
                   acqStale, relOther, ghVars, failed_issues, processable, cur, posting, success,
                   outcome, dispatched, prevSeen, prevAllFailed>>

\* get_open_issues, second half, and the tests scan_repositories makes on
\* it; an exception of get_open_issues is caught nowhere in the scan
ListIssues(p) ==
    /\ pc[p] = "list"
    /\ \E res \in ListOutcomes :
         IF res = "malformed"
         THEN RaiseOut(p)
         ELSE ListReturned(p, GetOpenIssues(res, entry[p], open, skipLabel))

\* for issue in issues: the list is exhausted, on to the next directory entry
IssuesDone(p) ==
    /\ pc[p] = "scan_issue"
    /\ todo[p] = <<>>
    /\ entry' = [entry EXCEPT ![p] = @ + 1]
    /\ cur' = [cur EXCEPT ![p] = 0]
    /\ pc' = [pc EXCEPT ![p] = "scan_dir"]
    /\ UNCHANGED <<lockFile, locked, old_pid, relCtx, sigIn, pending, exitCode,
                   acqStale, relOther, ghVars, failed_issues, issues_found, processable,
                   rate_limit_hit, todo, posting, success, outcome, seen, dispatched,
                   prevSeen, prevAllFailed>>

\* if issue_key in failed_issues
IsFailed_never(k, failed) == FALSE
IsFailed(k, failed) == k \in failed

\* the next issue: skipped when in failed_issues, skipped when
\* check_recent_attempt says so, else handed to process_issue; an exception
\* of check_recent_attempt is outside the try statement and leaves the scan
ConsiderIssue(p) ==
    /\ pc[p] = "scan_issue"
    /\ todo[p] # <<>>
    /\ LET n == Head(todo[p])
           k == <<entry[p], n>>
       IN  IF IsFailed(k, failed_issues[p])
           THEN /\ todo' = [todo EXCEPT ![p] = Tail(@)]
                /\ UNCHANGED <<lockVars, ghVars, failed_issues, issues_found, processable,
                               rate_limit_hit, entry, cur, posting, success, outcome, seen,
                               dispatched, prevSeen, prevAllFailed>>
           ELSE \E fetch \in FetchOutcomes :
                  IF fetch = "malformed"
                  THEN RaiseOut(p)
                  ELSE /\ todo' = [todo EXCEPT ![p] = Tail(@)]
                       /\ IF CheckRecentAttempt(GetIssueComments(fetch, comments[k]), now)
                          THEN UNCHANGED <<pc, cur, processable, dispatched>>
                          ELSE /\ cur' = [cur EXCEPT ![p] = n]
                               /\ processable' = [processable EXCEPT ![p] = TRUE]
                               /\ dispatched' = [dispatched EXCEPT ![p] = @ \cup {k}]
                               /\ pc' = [pc EXCEPT ![p] = "pi_start"]
                       /\ UNCHANGED <<lockFile, locked, old_pid, relCtx, sigIn, pending,
                                      exitCode, acqStale, relOther, ghVars,
                                      failed_issues, issues_found,
                                      rate_limit_hit, entry, posting, success, outcome, seen,
                                      prevSeen, prevAllFailed>>

\* process_issue returns True or False, or raises
AfterProcessIssue(p, result) ==
    /\ pc' = [pc EXCEPT ![p] = "pi_return"]
    /\ success' = [success EXCEPT ![p] = result]
    /\ posting' = [posting EXCEPT ![p] = FALSE]

\* process_issue up to the call of Claude Code: its own cooldown check, the
\* "working on it" comment, refresh_repository, the "note" comment
PiStartCounted(p, n) ==
    /\ pc[p] = "pi_start"
    /\ dispatches' = n
    /\ \E fetch \in FetchOutcomes : \E refreshOk, postOk \in BOOLEAN :
         LET k == Key(p)
             marked == PostIssueComment(comments[k], postOk, "working", now)
         IN  IF fetch = "malformed"
             THEN /\ AfterProcessIssue(p, "raise")
                  /\ UNCHANGED comments
             ELSE IF CheckRecentAttempt(GetIssueComments(fetch, comments[k]), now)
             THEN /\ AfterProcessIssue(p, "false")
                  /\ UNCHANGED comments
             ELSE IF ~refreshOk
             THEN /\ AfterProcessIssue(p, "false")
                  /\ comments' = [comments EXCEPT ![k] =
                                    PostIssueComment(marked, postOk, "note", now)]
             ELSE /\ pc' = [pc EXCEPT ![p] = "pi_claude"]
                  /\ comments' = [comments EXCEPT ![k] =
                                    PostIssueComment(marked, postOk, "note", now)]
                  /\ posting' = [posting EXCEPT ![p] = postOk]
                  /\ UNCHANGED success
    /\ UNCHANGED <<lockFile, locked, old_pid, relCtx, sigIn, pending, exitCode,
                   acqStale, relOther, now, open, skipLabel, quotaVars, failed_issues, issues_found,
                   processable, rate_limit_hit, entry, todo, cur, outcome,
                   seen, dispatched, prevSeen, prevAllFailed>>

\* the calls of process_issue are counted up to MaxDispatches
PiStart(p) ==
    /\ dispatches < MaxDispatches
    /\ PiStartCounted(p, dispatches + 1)

\* run_command(claude_cmd, timeout=1800): Claude Code ends with return code
\* 0, ends with another return code, or is stopped at the timeout
FixOutcomes == {"ok", "error", "timeout"}

\* the time the Claude run takes
FixDuration(res) == IF res = "timeout" THEN ClaudeTimeout ELSE 0

\* the comments process_issue posts from the Claude run on, by its outcome
RECURSIVE PostAll(_, _, _, _)
PostAll(cs, ok, bodies, t) ==
    IF bodies = <<>> THEN cs
    ELSE PostAll(PostIssueComment(cs, ok, Head(bodies), t), ok, Tail(bodies), t)

\* the clock d seconds from now, running and standing still
Elapse(d) == now + d
Halted(d) == now

\* process_issue from os.chdir on: Claude Code, run_tests, commit_and_push_fix,
\* mark_issue_resolved, each with the comments posted on the way
\* (the clock shows t when it returns: d seconds later when the clock runs)
PiClaudeBy(p, running) ==
    /\ pc[p] = "pi_claude"
    /\ \E chdirOk, testsOk, pushOk, closeOk \in BOOLEAN :
       \E claude \in FixOutcomes :
         LET k == Key(p)
             postOk == posting[p]
             t == IF running THEN Elapse(FixDuration(claude)) ELSE Halted(FixDuration(claude))
         IN  IF ~chdirOk
             THEN /\ AfterProcessIssue(p, "raise")
                  /\ UNCHANGED <<now, comments, open>>
             ELSE /\ t <= MaxTime
                  /\ now' = t
                  /\ IF claude # "ok"
                     THEN /\ AfterProcessIssue(p, "false")
                          /\ comments' = [comments EXCEPT ![k] =
                                PostAll(@, postOk, <<"note">>, t)]
                          /\ UNCHANGED open
                     ELSE IF ~testsOk
                     THEN /\ AfterProcessIssue(p, "false")
                          /\ comments' = [comments EXCEPT ![k] =
                                PostAll(@, postOk, <<"note", "note">>, t)]
                          /\ UNCHANGED open
                     ELSE IF ~pushOk
                     THEN /\ AfterProcessIssue(p, "false")
                          /\ comments' = [comments EXCEPT ![k] =
                                PostAll(@, postOk, <<"note", "note", "note">>, t)]
                          /\ UNCHANGED open
                     ELSE /\ AfterProcessIssue(p, "true")
                          /\ comments' = [comments EXCEPT ![k] =
                                PostAll(@, postOk,
                                        IF closeOk
                                        THEN <<"note", "note", "success", "note">>
                                        ELSE <<"note", "note", "success">>, t)]
                          /\ open' = IF closeOk THEN open \ {k} ELSE open
    /\ UNCHANGED <<lockFile, locked, old_pid, relCtx, sigIn, pending, exitCode,
                   acqStale, relOther, skipLabel, quotaVars, dispatches, failed_issues, issues_found,
                   processable, rate_limit_hit, entry, todo, cur, outcome,
                   seen, dispatched, prevSeen, prevAllFailed>>

PiClaude(p) == PiClaudeBy(p, TRUE)

\* failed_issues.add(issue_key) unless process_issue returned True
RecordFailure(failed, k, result) == IF result = "true" THEN failed ELSE failed \cup {k}

\* what scan_repositories does with the result of process_issue:
\* False: failed_issues.add, then the delay; True: the delay;
\* an exception: failed_issues.add and continue, without the delay
RecordOutcome(p) ==
    /\ pc[p] = "pi_return"
    /\ failed_issues' = [failed_issues EXCEPT ![p] = RecordFailure(@, Key(p), success[p])]
    /\ pc' = [pc EXCEPT ![p] = IF success[p] = "raise" THEN "scan_issue" ELSE "item_sleep"]
    /\ cur' = [cur EXCEPT ![p] = IF success[p] = "raise" THEN 0 ELSE @]
    /\ success' = [success EXCEPT ![p] = "none"]
    /\ UNCHANGED <<lockFile, locked, old_pid, relCtx, sigIn, pending, exitCode,
                   acqStale, relOther, ghVars, issues_found, processable, rate_limit_hit,
                   entry, todo, posting, outcome, seen, dispatched, prevSeen,
                   prevAllFailed>>

\* time.sleep(30) after process_issue has returned; the clock then shows t
ItemSleepUntil(p, t) ==
    /\ pc[p] = "item_sleep"
    /\ now' = t
    /\ pc' = [pc EXCEPT ![p] = "scan_issue"]
    /\ cur' = [cur EXCEPT ![p] = 0]
    /\ UNCHANGED <<lockFile, locked, old_pid, relCtx, sigIn, pending, exitCode,
                   acqStale, relOther, open, skipLabel, quotaVars, comments, dispatches,
                   failed_issues, issues_found, processable, rate_limit_hit, entry,
                   todo, posting, success, outcome, seen, dispatched, prevSeen, prevAllFailed>>

ItemSleep(p) ==
    /\ now + ItemDelay <= MaxTime
    /\ ItemSleepUntil(p, now + ItemDelay)

\* scan_repositories returns and main takes one of its four branches
ScanReturn(p) ==
    /\ pc[p] = "scan_dir"
    /\ entry[p] > NumRepos
    /\ LET b == MainBranch(rate_limit_hit[p], issues_found[p], processable[p])
       IN  /\ outcome' = [outcome EXCEPT ![p] = b]
           /\ pc' = [pc EXCEPT ![p] = IF b = "progressed" THEN "loop_top" ELSE "sleeping"]
    /\ UNCHANGED <<lockFile, locked, old_pid, relCtx, sigIn, pending, exitCode,
                   acqStale, relOther, ghVars, failed_issues, issues_found, processable,
                   rate_limit_hit, entry, todo, cur, posting, success, seen, dispatched,
                   prevSeen, prevAllFailed>>

\* time.sleep(sleep_time * 60); break; finally: lock.release(); the clock
\* then shows t
SleepDoneAt(p, t) ==
    /\ pc[p] = "sleeping"
    /\ now' = t
    /\ CallRelease(p, "finally")
    /\ ForgetScan(p)
    /\ UNCHANGED <<lockFile, locked, old_pid, sigIn, pending, exitCode, acqStale,
                   open, skipLabel, quotaVars, comments, dispatches>>

SleepDone(p) ==
    /\ now + SleepTime * SecondsPerMinute <= MaxTime
    /\ SleepDoneAt(p, now + SleepTime * SecondsPerMinute)

\* no other instance is inside acquire() or release()
LockPcs == AcqPcs \cup RelPcs \cup {"denied", "denied_released", "exiting", "quitting"}
Solo(p) == \A q \in Procs \ {p} : pc[q] \notin LockPcs
\* the instances are started in the order of their process ids, each while
\* the one before it sleeps after its last pass or after that one has ended:
\* a scan does not touch the lock file and a denied instance touches nothing
\* else, so a start in the middle of a pass adds no behaviour of either
InOrder(p) == pc[p] = "idle" => \A q \in Procs : q < p => pc[q] \in {"sleeping", "exited"}
\* instance p may take a step
Sched(p) == Solo(p) /\ InOrder(p)

(* --------------------------- specifications ---------------------------- *)
InitMain ==
    /\ lockFile \in InitialLockFiles
    /\ pc = [p \in Procs |-> "idle"]
    /\ locked = [p \in Procs |-> FALSE]
    /\ old_pid = [p \in Procs |-> 0]
    /\ relCtx = [p \in Procs |-> "none"]
    /\ sigIn = [p \in Procs |-> "try"]
    /\ pending = [p \in Procs |-> "none"]
    /\ exitCode = [p \in Procs |-> <<>>]
    /\ acqStale = [p \in Procs |-> FALSE]
    /\ relOther = [p \in Procs |-> FALSE]
    /\ now = 0
    /\ open \in {{}, Keys}
    /\ skipLabel \in SUBSET (open \cap {<<NumRepos, MaxIssues>>})
    /\ comments \in [Keys -> InitialComments \cup {{}}]
    /\ \A k \in Keys : comments[k] = {} <=> (k \notin open \/ k # <<1, 1>>)
    /\ dispatches = 0
    /\ failed_issues = [p \in Procs |-> {}]
    /\ issues_found = [p \in Procs |-> FALSE]
    /\ processable = [p \in Procs |-> FALSE]
    /\ rate_limit_hit = [p \in Procs |-> FALSE]
    /\ entry = [p \in Procs |-> 0]
    /\ todo = [p \in Procs |-> <<>>]
    /\ cur = [p \in Procs |-> 0]
    /\ posting = [p \in Procs |-> FALSE]
    /\ success = [p \in Procs |-> "none"]
    /\ outcome = [p \in Procs |-> "none"]
    /\ seen = [p \in Procs |-> {}]
    /\ dispatched = [p \in Procs |-> {}]
    /\ prevSeen = [p \in Procs |-> {}]
    /\ prevAllFailed = [p \in Procs |-> FALSE]

\* no call of get_open_issues is followed on its own
Init ==
    /\ InitMain
    /\ snapshot = <<>> /\ wait_time = <<>> /\ qpc = "none"

MainStep(p) ==
    \/ StartMain(p)
    \/ AcqExists(p) \/ AcqRead(p) \/ AcqProbe(p)
    \/ AcqRemoveStale(p) \/ AcqRemoveInvalid(p) \/ AcqWrite(p)
    \/ ExitDenied(p) \/ DeniedRelease(p)
    \/ RelCheck(p) \/ RelRemove(p)
    \/ Signal(p) \/ Reap(p)

LockStep(p) == MainStep(p) \/ Kill(p)

\* the instances' steps interleave freely; the loop is seen from the lock
NextRace ==
    \E p \in Procs :
        \/ LockStep(p)
        \/ AbsPassSleep(p) \/ AbsRaise(p) \/ AbsSleepDone(p)

\* seen from the lock there is nothing on GitHub
InitRace == Init /\ open = {}

SpecRace == InitRace /\ [][NextRace]_vars

\* one call of get_open_issues, from the quota check to the listing, on
\* every answer of `gh api rate_limit`
InitQuota ==
    /\ InitMain /\ lockFile = NoFile /\ open = {}
    /\ snapshot \in {<<q>> : q \in QuotaInputs(0)}
    /\ wait_time = <<>> /\ qpc = "check"

NextQuota == QuotaCheck \/ QuotaWait \/ QuotaList

SpecQuota == InitQuota /\ [][NextQuota]_vars

\* One run followed for ever.  The clock stands still: the age of a comment
\* is read as no more than it is, so that an issue found out of cooldown
\* here is out of cooldown on the true clock as well.  The calls of
\* process_issue are not counted.
First == CHOOSE p \in Procs : \A q \in Procs : p <= q

LivePiStart(p) == PiStartCounted(p, dispatches)
LivePiClaude(p) == PiClaudeBy(p, FALSE)
LiveItemSleep(p) == ItemSleepUntil(p, Halted(ItemDelay))
LiveSleepDone(p) == SleepDoneAt(p, Halted(SleepTime * SecondsPerMinute))

NextLive ==
    \/ StartMain(First)
    \/ AcqExists(First)
    \/ AcqRead(First)
    \/ AcqProbe(First)
    \/ AcqRemoveStale(First)
    \/ AcqRemoveInvalid(First)
    \/ AcqWrite(First)
    \/ RelCheck(First)
    \/ RelRemove(First)
    \/ ScanBegin(First)
    \/ SkipEntry(First)
    \/ RepoQuota(First)
    \/ ListIssues(First)
    \/ IssuesDone(First)
    \/ ConsiderIssue(First)
    \/ LivePiStart(First)
    \/ LivePiClaude(First)
    \/ RecordOutcome(First)
    \/ LiveItemSleep(First)
    \/ ScanReturn(First)
    \/ LiveSleepDone(First)

\* every call returns and the interpreter goes on to the next statement
SpecLive == Init /\ [][NextLive]_vars /\ WF_vars(NextLive)

\* the whole program; a call of acquire() or release() is not overtaken by
\* another instance
Next ==
    \E p \in Procs :
        \/ StartMain(p) /\ Sched(p)
        \/ AcqExists(p) /\ Sched(p)
        \/ AcqRead(p) /\ Sched(p)
        \/ AcqProbe(p) /\ Sched(p)
        \/ AcqRemoveStale(p) /\ Sched(p)
        \/ AcqRemoveInvalid(p) /\ Sched(p)
        \/ AcqWrite(p) /\ Sched(p)
        \/ ExitDenied(p) /\ Sched(p)
        \/ DeniedRelease(p) /\ Sched(p)
        \/ RelCheck(p) /\ Sched(p)
        \/ RelRemove(p) /\ Sched(p)
        \/ Signal(p) /\ Sched(p)
        \/ Reap(p) /\ Sched(p)
        \/ ScanBegin(p) /\ Sched(p)
        \/ SkipEntry(p) /\ Sched(p)
        \/ RepoQuota(p) /\ Sched(p)
        \/ ListIssues(p) /\ Sched(p)
        \/ IssuesDone(p) /\ Sched(p)
        \/ ConsiderIssue(p) /\ Sched(p)
        \/ PiStart(p) /\ Sched(p)
        \/ PiClaude(p) /\ Sched(p)
        \/ RecordOutcome(p) /\ Sched(p)
        \/ ItemSleep(p) /\ Sched(p)
        \/ ScanReturn(p) /\ Sched(p)
        \/ SleepDone(p) /\ Sched(p)

Spec == Init /\ [][Next]_vars

(* ------------------------------ properties ---------------------------- *)
\* everything local to instance p; every step of p changes it and no step
\* of another instance does
Local(p) == <<pc[p], locked[p], old_pid[p], relCtx[p], sigIn[p], pending[p],
              exitCode[p], acqStale[p], relOther[p],
              failed_issues[p], entry[p], todo[p], cur[p]>>
Moved(p) == Local(p)' # Local(p) /\ pc'[p] # "killed"

\* C1: while the lock record names P and P is alive, an acquire() of Q goes
\* from the existence check to the read, reads P's pid, is denied by the
\* probe (returns False) and never changes the record; a release() that Q
\* calls afterwards does not change it either.
C1_LiveLockDenies ==
    [][\A q \in Procs :
         (pc[q] \in AcqPcs \cup RelPcs \cup {"denied"} /\ Moved(q))
         => \A p \in Procs \ {q} :
              (Names(lockFile, p) /\ ProcessExists(p))
              => /\ pc[q] = "acq_exists"
                     => (pc'[q] = "acq_read" /\ lockFile' = lockFile)
                 /\ pc[q] = "acq_read"
                     => (pc'[q] = "acq_probe" /\ old_pid'[q] = p /\ lockFile' = lockFile)
                 /\ (pc[q] = "acq_probe" /\ old_pid[q] = p)
                     => (pc'[q] = "denied" /\ ~locked'[q] /\ lockFile' = lockFile)
                 /\ (pc[q] = "denied" \/ (pc[q] \in RelPcs /\ relCtx[q] = "api"))
                     => (lockFile' = lockFile
                         /\ pc'[q] \in RelPcs \cup {"denied_released", "quitting"})
      ]_vars

\* C1 witness: Q was denied and has called release(), the record still names
\* the live holder P
C1_Witness ==
    \E q \in Procs : \E p \in Procs \ {q} :
        /\ pc[q] = "denied_released"
        /\ Names(lockFile, p) /\ pc[p] \in LoopPcs /\ locked[p]

\* an instance holds the lock from the return of acquire() to the first
\* call of release()
Holding(p) == pc[p] \in LoopPcs

\* C2: at most one live instance holds the lock at any time, whatever the
\* interleaving of the steps of acquire().
C2_AtMostOneLiveOwner == Cardinality({p \in Procs : Holding(p)}) <= 1

\* C3: an acquire() called on a record whose owner is not alive, and not
\* overtaken by another instance replacing that record, walks through read,
\* probe and removal without being denied, and returns True with the record
\* naming the caller.
C3_StaleLockReplaced ==
    [][\A q \in Procs :
         (pc[q] \in AcqPcs /\ acqStale[q] /\ Moved(q))
         => /\ (pc[q] = "acq_exists" /\ StaleRecord(lockFile))
                => (pc'[q] = "acq_read" /\ lockFile' = lockFile)
            /\ (pc[q] = "acq_read" /\ StaleRecord(lockFile))
                => (pc'[q] = "acq_probe" /\ old_pid'[q] = ReadPid(lockFile).val)
            /\ (pc[q] = "acq_probe" /\ ~ProcessExists(old_pid[q]))
                => (pc'[q] = "acq_rm_stale" /\ lockFile' = lockFile)
            /\ (pc[q] = "acq_rm_stale" /\ StaleRecord(lockFile))
                => (pc'[q] = "acq_write" /\ ~lockFile'.exists)
            /\ pc[q] = "acq_write"
                => (pc'[q] = "loop_top" /\ locked'[q] /\ Names(lockFile', q))
      ]_vars

\* C3 witness: acquire() has returned True on a stale record, which now
\* names the caller
C3_Witness ==
    \E q \in Procs :
        /\ pc[q] = "loop_top" /\ acqStale[q]
        /\ Names(lockFile, q) /\ locked[q]

\* C4: a release() called while the record names another process never
\* changes the record, also when the caller had acquired the lock before.
C4_ReleaseByNonOwner ==
    [][\A p \in Procs :
         (pc[p] \in RelPcs /\ relOther[p] /\ Moved(p))
         => lockFile' = lockFile
      ]_vars

\* C4 witness: an instance that acquired the lock finds, at the release() of
\* the atexit hook, the record overwritten with the pid of another live
\* instance: the release() of main's finally block has left it in place
C4_Witness ==
    \E p \in Procs : \E q \in Procs \ {p} :
        /\ pc[p] = "rel_check" /\ relCtx[p] = "atexit" /\ locked[p]
        /\ relOther[p] /\ Names(lockFile, q) /\ ProcessExists(q)

(* --------------------------- exit paths (C5) --------------------------- *)
\* C5: an instance whose acquire() returned True and that ends by the return
\* from main after the last sleep, by an exception leaving the loop, or by
\* SIGTERM / SIGINT anywhere in the loop or in the clean-up, ends with a lock
\* record that does not name it.
C5_ReleasedOnEveryExit ==
    \A p \in Procs : pc[p] \in {"exiting", "exited"} => ~Names(lockFile, p)

\* C5 witness: a signal has ended the loop of an instance that held the lock;
\* the handler and main's finally block are done, the atexit hook runs, the
\* record is gone
C5_Witness ==
    \E p \in Procs :
        /\ pc[p] = "rel_check" /\ relCtx[p] = "atexit" /\ pending[p] = "exit"
        /\ ~locked[p] /\ ~OsPathExists(lockFile)

(* ----------------------- cooldown (C6, C7) ----------------------------- *)
\* issue k carries an attempt marker of CronCoder whose age is strictly below
\* the cooldown window of one hour
InCooldown(k) ==
    \E c \in comments[k] :
        /\ c.body = "working" /\ c.createdAt # <<>>
        /\ now - c.createdAt[1] < CooldownHours * SecondsPerHour

\* C6: process_issue never goes on to the Claude run for an issue that is in
\* cooldown when the decision is made, in whatever pass and whatever instance.
C6_NoFixInCooldown ==
    [][\A p \in Procs :
         (pc[p] = "pi_start" /\ pc'[p] = "pi_claude") => ~InCooldown(Key(p))
      ]_vars

\* C7: check_recent_attempt returns True exactly for an issue in cooldown:
\* scan_repositories, having found the issue not in failed_issues, skips it
\* if and only if it carries an attempt marker younger than the window.
C7_CheckRecentAttemptExact ==
    [][\A p \in Procs :
         ( /\ pc[p] = "scan_issue" /\ todo[p] # <<>>
           /\ <<entry[p], Head(todo[p])>> \notin failed_issues[p]
           /\ todo'[p] # todo[p]
           /\ pc'[p] \in {"scan_issue", "pi_start"} )
         => (pc'[p] = "scan_issue" <=> InCooldown(<<entry[p], Head(todo[p])>>))
      ]_vars

(* ------------------- session failure set (C8, C9) ---------------------- *)
\* C8: when process_issue has returned False or raised, the issue is in
\* failed_issues; failed_issues loses nothing while the run goes on; and no
\* issue in failed_issues is handed to process_issue again.
C8_FailedThenSkipped ==
    [][\A p \in Procs :
         /\ (pc[p] = "pi_return" /\ pc'[p] \in {"scan_issue", "item_sleep"}
              /\ success[p] # "true")
             => Key(p) \in failed_issues'[p]
         /\ (pc[p] \in LoopPcs /\ pc'[p] \in LoopPcs)
             => failed_issues[p] \subseteq failed_issues'[p]
         /\ (pc[p] = "scan_issue" /\ pc'[p] = "pi_start")
             => <<entry'[p], cur'[p]>> \notin failed_issues[p]
      ]_vars

\* C8 witness: in a later pass the list of a repository has been walked; an
\* issue of it that failed in an earlier pass was listed again and was not
\* handed to process_issue
C8_Witness ==
    \E p \in Procs : \E k \in failed_issues[p] :
        /\ pc[p] = "scan_issue" /\ todo[p] = <<>> /\ entry[p] = k[1]
        /\ k \in seen[p] /\ k \in prevSeen[p] /\ k \notin dispatched[p]

\* C9: failed_issues never loses a key while the run goes on; a pass that
\* follows a pass whose issues are all in failed_issues, and that lists the
\* same issues, hands nothing to process_issue and returns "issues found,
\* none processable", on which main sleeps and leaves the loop.
C9_FailureSetGrows ==
    [][\A p \in Procs :
         /\ (pc[p] \in LoopPcs /\ pc'[p] \in LoopPcs)
             => failed_issues[p] \subseteq failed_issues'[p]
         /\ (pc'[p] \in ScanPcs /\ prevAllFailed'[p] /\ seen'[p] \subseteq prevSeen'[p])
             => dispatched'[p] = {}
         /\ (pc[p] = "scan_dir" /\ pc'[p] \in {"sleeping", "loop_top"}
              /\ prevAllFailed[p] /\ seen[p] = prevSeen[p])
             => /\ issues_found[p] /\ ~processable[p]
                /\ pc'[p] = "sleeping"
                /\ (~rate_limit_hit[p] => outcome'[p] = "exhausted")
      ]_vars

\* C9 witness: the instance sleeps after a pass over the issues of the pass
\* before, which had all failed
C9_Witness ==
    \E p \in Procs :
        /\ pc[p] = "sleeping" /\ prevAllFailed[p] /\ seen[p] = prevSeen[p]
        /\ failed_issues[p] # {} /\ dispatched[p] = {}

(* --------------------------- pass outcome (C10) ------------------------ *)
\* C10: a pass that ends is idle, exhausted or progressed by the issues it
\* met: scan_repositories reports "issues found" exactly when it listed one
\* and "processable" exactly when it handed one to process_issue, and main
\* starts the next pass at once exactly when one was handed over, sleeping
\* and leaving the loop otherwise.
C10_OutcomeByItems ==
    [][\A p \in Procs :
         (pc[p] = "scan_dir" /\ pc'[p] \in {"sleeping", "loop_top"})
         => /\ issues_found[p] <=> seen[p] # {}
            /\ processable[p] <=> dispatched[p] # {}
            /\ pc'[p] = "loop_top" <=> dispatched[p] # {}
      ]_vars

(* ----------------------------- loop policy (C11) ----------------------- *)
\* C11: after a pass that handed an issue to process_issue main starts the
\* next pass at once, without sleeping; after any other pass it sleeps
\* sleep_time minutes once and then leaves the loop for the finally block,
\* never starting another pass.
C11_LoopPolicy ==
    [][\A p \in Procs :
         /\ (pc[p] = "scan_dir" /\ pc'[p] \in {"sleeping", "loop_top"})
            => /\ dispatched[p] # {} => (pc'[p] = "loop_top" /\ now' = now)
               /\ dispatched[p] = {} => pc'[p] = "sleeping"
         /\ pc[p] = "sleeping"
            => /\ pc'[p] \in {"sleeping", "rel_check"}
               /\ (pc'[p] = "rel_check" /\ relCtx'[p] = "finally")
                   => now' = now + SleepTime * SecondsPerMinute
      ]_vars

(* --------------------------- success (C12) ----------------------------- *)
\* C12: when process_issue has returned True the issue is not added to
\* failed_issues and carries the "Successfully fixed and pushed" comment; a
\* pass that listed one issue, in a scan without rate-limit error, and handed
\* it over with that result makes main start the next pass.
C12_SuccessRecorded ==
    [][\A p \in Procs :
         /\ (pc[p] = "pi_return" /\ success[p] = "true" /\ pc'[p] = "item_sleep")
            => /\ Key(p) \notin failed_issues'[p]
               /\ \E c \in comments[Key(p)] : c.body = "success"
         /\ (pc[p] = "scan_dir" /\ pc'[p] \in {"sleeping", "loop_top"}
             /\ Cardinality(seen[p]) = 1 /\ dispatched[p] = seen[p]
             /\ failed_issues[p] = {} /\ ~rate_limit_hit[p])
            => (pc'[p] = "loop_top" /\ outcome'[p] = "progressed")
      ]_vars

(* ------------------------ quota governor (C13-C15) --------------------- *)
\* the snapshot was fetched and parsed
SnapshotOk(q) == q.rc = 0 /\ q.jsonOk
\* the rate-limited categories of a snapshot, and the binding ones: those
\* with the smallest remaining value
Categories(q) == IF q.hasGraphql THEN {q.core, q.graphql} ELSE {q.core}
Binding(q) == {c \in Categories(q) : \A d \in Categories(q) : c.remaining <= d.remaining}

\* C13: when the binding category of the snapshot has remaining = 0, the
\* sleep of get_open_issues before `gh issue list` lasts at least the time
\* to that category's reset plus the 60 seconds of margin, and the listing
\* comes next.
C13_ExhaustedBlocksUntilReset ==
    [][(qpc = "wait" /\ SnapshotOk(snapshot[1])
        /\ \E c \in Binding(snapshot[1]) : c.remaining = 0)
       => /\ qpc' = "list"
          /\ \E c \in Binding(snapshot[1]) :
                now' - now >= (c.reset - now) + ResetBuffer
      ]_vars

\* C14: for a snapshot whose binding category has remaining > 0, wait_time
\* is the time to that category's reset divided by remaining when remaining
\* is below 50, and 0 when it is 50 or more.
C14_PacingDelay ==
    (qpc = "wait" /\ SnapshotOk(snapshot[1]))
    => \A c \in Binding(snapshot[1]) :
         c.remaining > 0
         => IF c.remaining < LowQuota
            THEN \E b \in Binding(snapshot[1]) :
                   wait_time[1].n * b.remaining = Max(0, b.reset - now) * wait_time[1].d
            ELSE wait_time[1].n = 0

\* C15: when the snapshot could not be fetched or parsed, wait_time is 0 and
\* get_open_issues goes on to `gh issue list` without sleeping.
C15_FetchFailureFailsOpen ==
    [][(qpc = "wait" /\ ~SnapshotOk(snapshot[1]))
       => (wait_time[1].n = 0 /\ now' = now /\ qpc' = "list")
      ]_vars

(* --------------------------- exits of main (C16, C17) ------------------ *)
\* C16: an acquire() that ends in `return False` has left the lock file as
\* it was at each of its steps, and main then ends with exit code 0 having
\* scanned no directory entry, seen and dispatched no issue, posted no
\* comment and left the lock file unchanged.
C16_DeniedIsCleanExit ==
    [][\A p \in Procs :
         /\ (pc[p] \in {"acq_exists", "acq_read", "acq_probe"} /\ pc'[p] = "denied")
            => (lockFile' = lockFile /\ ~locked'[p])
         /\ (pc[p] \in {"denied", "denied_released"} /\ Moved(p))
            => /\ lockFile' = lockFile
               /\ comments' = comments /\ dispatches' = dispatches
               /\ entry[p] = 0 /\ seen[p] = {} /\ dispatched[p] = {}
               /\ pc'[p] \in {"denied_released", "rel_check", "quitting"}
               /\ pc'[p] = "quitting" => exitCode'[p] = <<0>>
      ]_vars

\* C16 witness: an instance denied by the live holder of the lock is ending
\* with exit code 0
C16_Witness ==
    \E p \in Procs : \E q \in Procs \ {p} :
        /\ pc[p] = "quitting" /\ exitCode[p] = <<0>>
        /\ Names(lockFile, q) /\ pc[q] = "sleeping"

C18_ItemExceptionAbsorbed ==
    [][\A p \in Procs :
         /\ (pc[p] \in {"scan_issue", "pi_start", "pi_claude", "pi_return"} /\ Moved(p))
            => pending'[p] # "exc"
         /\ (pc[p] = "pi_return" /\ success[p] = "raise" /\ pc'[p] \in ScanPcs)
            => (Key(p) \in failed_issues'[p] /\ pc'[p] = "scan_issue")
      ]_vars

\* C19: whatever `gh issue list` does in one repository, the scan goes on:
\* the step of get_open_issues and of the tests on its result leads to the
\* issues of this repository or to the next directory entry, and no
\* exception leaves the scan.
C19_RepoFailureIsLocal ==
    [][\A p \in Procs :
         (pc[p] = "list" /\ Moved(p))
         => /\ pending'[p] # "exc"
            /\ \/ pc'[p] = "scan_issue" /\ entry'[p] = entry[p]
               \/ pc'[p] = "scan_dir" /\ entry'[p] = entry[p] + 1
               \/ pc'[p] \in RelPcs /\ relCtx'[p] = "handler"
      ]_vars

\* C20: when process_issue has not returned True, the issue is in
\* failed_issues once scan_repositories has dealt with the result, and the
\* issue then carries a "working on it" comment younger than the cooldown.
C20_FailureRecordedTwice ==
    [][\A p \in Procs :
         (pc[p] = "pi_return" /\ success[p] # "true" /\ pc'[p] \in ScanPcs)
         => /\ Key(p) \in failed_issues'[p]
            /\ \E c \in comments'[Key(p)] :
                  /\ c.body = "working" /\ c.createdAt # <<>>
                  /\ now' - c.createdAt[1] < CooldownHours * SecondsPerHour
      ]_vars

(* ------------------- the lock file, once more (C21-C23) ---------------- *)
\* C21: an acquire() that reads a lock file whose text is no integer goes
\* to the removal, removes the file, writes the caller's pid and returns
\* True with `locked` set; no step of it ends the process.
C21_TornRecordDiscarded ==
    [][\A q \in Procs :
         /\ (pc[q] = "acq_read" /\ ReadPid(lockFile).err = "value" /\ Moved(q))
            => (pc'[q] = "acq_rm_torn" /\ lockFile' = lockFile)
         /\ (pc[q] = "acq_rm_torn" /\ Moved(q))
            => (pc'[q] = "acq_write" /\ lockFile' = NoFile)
         /\ (pc[q] = "acq_write" /\ Moved(q))
            => (Names(lockFile', q) /\ locked'[q] /\ pc'[q] = "loop_top")
      ]_vars

\* C22: once a release() of an instance has removed the record (`locked` is
\* False again), every later release() of that instance, from the signal
\* handler, main's finally block or the atexit hook, leaves the lock file
\* and `locked` as they are, whoever has written the file in between.
C22_ReleaseOnce ==
    [][\A p \in Procs :
         (pc[p] \in RelPcs /\ relCtx[p] # "api" /\ ~locked[p] /\ Moved(p))
         => (lockFile' = lockFile /\ ~locked'[p])
      ]_vars

\* C22 witness: the release() of main's finally block removed the record,
\* another instance has acquired the lock since, and the release() of the
\* atexit hook is under way
C22_Witness ==
    \E p \in Procs : \E q \in Procs \ {p} :
        /\ pc[p] = "rel_check" /\ relCtx[p] = "atexit" /\ ~locked[p]
        /\ Names(lockFile, q) /\ locked[q] /\ pc[q] \in LoopPcs

\* C23: when Q has gone through the removal of a record in acquire() and
\* has written its own, no step of a release() of P removes the lock file
\* while it names Q, however the steps of the two calls interleave.
C23_ReleaseSparesNewOwner ==
    [][\A p \in Procs : \A q \in Procs \ {p} :
         (pc[p] \in RelPcs /\ Moved(p) /\ Names(lockFile, q) /\ acqStale[q])
         => lockFile' = lockFile
      ]_vars

(* --------------------------- the scan (C24) ---------------------------- *)
\* C24: an issue labelled croncoder-skip is in no list scan_repositories
\* walks: it is never handed to process_issue, never in failed_issues, and
\* never gets a "working on it" comment.
C24_SkipLabelExcluded ==
    \A k \in skipLabel :
        /\ \A p \in Procs :
             /\ k \notin seen[p] /\ k \notin dispatched[p] /\ k \notin failed_issues[p]
             /\ pc[p] \in {"pi_start", "pi_claude", "pi_return"} => Key(p) # k
        /\ \A c \in comments[k] : c.body # "working"

\* C24 witness: the scan has passed the repository of an open issue that is
\* labelled croncoder-skip and has handed an issue of another repository to
\* process_issue
C24_Witness ==
    \E p \in Procs : \E k \in skipLabel :
        /\ k \in open /\ pc[p] \in ScanPcs /\ entry[p] > k[1]
        /\ \E j \in dispatched[p] : j[1] # k[1]

(* ---------------------- quota governor, once more (C25) ---------------- *)
\* C25: when check_github_rate_limit returns a wait, hard or pacing, the
\* time until reset it was computed from is that of a category whose
\* remaining value is below 50, never that of a category with more.
C25_ResetOfLowCategory ==
    (qpc = "wait" /\ SnapshotOk(snapshot[1]) /\ Greater(wait_time[1], 0))
    => LET remaining == (CHOOSE b \in Binding(snapshot[1]) : TRUE).remaining
       IN  \E c \in Categories(snapshot[1]) :
             /\ c.remaining < LowQuota
             /\ IF remaining = 0
                THEN wait_time[1].n = (Max(0, c.reset - now) + ResetBuffer) * wait_time[1].d
                ELSE wait_time[1].n * remaining = Max(0, c.reset - now) * wait_time[1].d

(* -------------------- order of the steps (C26, C27) -------------------- *)
\* C26: a call of get_open_issues checks the quota once, first, then sleeps
\* the wait if there is one, and then always runs `gh issue list`, whatever
\* the quota check returned; the listing is never reached another way.
C26_CheckThenList ==
    [][/\ qpc = "check" => (qpc' = "wait" /\ wait_time = <<>> /\ Len(wait_time') = 1)
       /\ qpc = "wait" => (qpc' = "list" /\ wait_time' = wait_time)
       /\ qpc = "list" => (qpc' = "listed" /\ wait_time' = wait_time)
       /\ qpc' = "listed" => (qpc = "list" /\ Len(wait_time) = 1)
      ]_vars

\* C26 witness: the listing has been made after the hard wait on an
\* exhausted quota
C26_Witness ==
    /\ qpc = "listed" /\ SnapshotOk(snapshot[1])
    /\ \E c \in Binding(snapshot[1]) : c.remaining = 0
    /\ Greater(wait_time[1], 0) /\ now >= ResetBuffer

\* C27: once process_issue is done with an issue, whether it returned True,
\* returned False or raised, scan_repositories records the result and then
\* sleeps 30 seconds before it considers the next issue.
C27_DelayAfterEveryDispatch ==
    [][\A p \in Procs :
         /\ (pc[p] = "pi_return" /\ pc'[p] \in ScanPcs)
            => /\ pc'[p] = "item_sleep"
               /\ success[p] # "true" => Key(p) \in failed_issues'[p]
         /\ (pc[p] = "item_sleep" /\ pc'[p] \in ScanPcs)
            => (pc'[p] = "scan_issue" /\ now' = now + ItemDelay)
      ]_vars

(* ----------------------------- termination (C28) ----------------------- *)
\* C28: a run whose calls all return makes finitely many passes: once main
\* is in its loop it reaches the release() of the finally block, whatever
\* the results of Claude Code, the tests, the push, the comments and the
\* closing of the issue.
C28_RunTerminates ==
    (pc[First] \in LoopPcs) ~> (pc[First] \in RelPcs \cup {"exiting", "exited"})

(* ------------------- lock held for the whole run (C29) ----------------- *)
\* C29: from the return of True by acquire() until after the sleep that
\* follows the last pass, the instance holds the lock: during every pass and
\* during the sleep the lock file exists, its record names the running
\* instance, and no other instance is in its loop.
C29_LockHeldThroughout ==
    \A p \in Procs :
        pc[p] \in LoopPcs
        => /\ locked[p]
           /\ Names(lockFile, p)
           /\ \A q \in Procs \ {p} : pc[q] \notin LoopPcs

(* ------------------- rate-limited listing (C30) ------------------------ *)
\* C30: when `gh issue list` of a repository reports a rate-limit error,
\* scan_repositories sets rate_limit_hit and goes on to the next directory
\* entry with none of that repository's issues listed or dispatched; the
\* flag stays set for the rest of the pass, in which the remaining entries
\* are scanned as ever; the pass then ends in the rate-limit branch of main
\* whatever was found or dispatched in it, and that branch sleeps
\* sleep_time minutes and leaves the loop for the finally block.
C30_RateLimitEndsRun ==
    [][\A p \in Procs :
         /\ (pc[p] = "list" /\ rate_limit_hit'[p] /\ ~rate_limit_hit[p])
            => /\ pc'[p] = "scan_dir" /\ entry'[p] = entry[p] + 1
               /\ todo'[p] = <<>>
               /\ seen'[p] = seen[p] /\ dispatched'[p] = dispatched[p]
         /\ (pc[p] \in ScanPcs /\ rate_limit_hit[p] /\ pc'[p] \in ScanPcs)
            => rate_limit_hit'[p]
         /\ (pc[p] = "scan_dir" /\ rate_limit_hit[p] /\ entry[p] <= NumRepos
             /\ pc'[p] \in ScanPcs /\ Moved(p))
            => \/ pc'[p] = "list" /\ entry'[p] = entry[p]
               \/ pc'[p] = "scan_dir" /\ entry'[p] = entry[p] + 1
                  /\ ~IsGitRepository(entry[p])
         /\ (pc[p] = "scan_dir" /\ rate_limit_hit[p]
             /\ pc'[p] \in {"sleeping", "loop_top"})
            => (pc'[p] = "sleeping" /\ outcome'[p] = "rate_limit")
         /\ (pc[p] = "sleeping" /\ outcome[p] = "rate_limit" /\ Moved(p))
            => /\ pc'[p] = "rel_check"
               /\ relCtx'[p] = "finally"
                   => now' = now + SleepTime * SecondsPerMinute
      ]_vars

\* C30 witness: the listing of the first repository was rate limited, the
\* issue of the second was listed and handed to process_issue all the same,
\* and main sleeps in its rate-limit branch
C30_Witness ==
    \E p \in Procs :
        /\ pc[p] = "sleeping" /\ outcome[p] = "rate_limit"
        /\ open = Keys
        /\ seen[p] = {<<NumRepos, 1>>} /\ dispatched[p] = {<<NumRepos, 1>>}

(* ------------------- failure without a fix attempt (C31) --------------- *)
\* C31: an issue is added to failed_issues, and makes its pass one with a
\* processable issue, only if Claude Code was run on it: a call of
\* process_issue that returns before the Claude run (its own cooldown check
\* skips the issue, or an earlier step ends the call) returns a result that
\* scan_repositories does not record in failed_issues, and the pass is not
\* counted as processable on account of that issue.
C31_FailedOnlyAfterFixRun ==
    [][\A p \in Procs :
         (pc[p] = "pi_start" /\ pc'[p] = "pi_return")
         => /\ RecordFailure(failed_issues[p], Key(p), success'[p]) = failed_issues[p]
            /\ dispatched[p] = {Key(p)} => ~processable'[p]
      ]_vars

====
